---- MODULE Spec2Model ----
(***************************************************************************)
(* Model of src/cpusimulator.py: the Process record, the Scheduler with    *)
(* its reset / metrics code and its seven scheduling policies.  One policy *)
(* call is modelled as Call (reset and local initialisation), one action   *)
(* per iteration of the policy's while loop, and Return (loop exit and     *)
(* get_metrics).                                                           *)
(***************************************************************************)
EXTENDS Integers, Sequences, FiniteSets, TLC

VARIABLES
    original_processes,   \* Scheduler.original_processes: the descriptor list
    processes,            \* Scheduler.processes: the live records of the run
    pc,                   \* "idle" | "running" | "returned" | "raised"
    policy,               \* the policy method being executed, "none" before
    quantum,              \* the quantum argument of the current call
    current_time,         \* local current_time of the policy method
    ready_queue,          \* local ready_queue: indices into processes
    queues,               \* local queues of multilevel_queue (3 of them)
    completed_processes,  \* local completed_processes: indices into processes
    metrics,              \* the value the current call returned, None before
    reused,               \* history: a policy call was made before this one
    recording,            \* whether this behaviour keeps the two histories below
    admitted,             \* history: the processes of this run in the order
                          \*   in which they entered a ready structure
    executed              \* history: the slices of this run, in order, as
                          \*   [proc, at, ticks, left]

vars == <<original_processes, processes, pc, policy, quantum, current_time,
          ready_queue, queues, completed_processes, metrics, reused,
          recording, admitted, executed>>

----------------------------------------------------------------------------
(* Bounds of the model *)

MaxProcs == 2
MaxArrival == 1
MaxBurst == 2
MaxQuantum == 2
MaxClock == 14

\* Priorities the workloads draw from: tier 0 and tier 1 of the multilevel queue
Priorities == {0, 4}

\* ... and with negative priorities: priority // 4 is -1 for -1 and -4 for -13
IntPriorities == {-13, -1, 0, 4}

----------------------------------------------------------------------------
(* Optional[int]: None is the empty tuple, a value t is <<t>> *)

None == <<>>

Some(t) == <<t>>

IsNone(o) == o = None

Val(o) == o[1]

Min(a, b) == IF a <= b THEN a ELSE b

Max(a, b) == IF a >= b THEN a ELSE b

Range(s) == {s[k] : k \in 1..Len(s)}

RECURSIVE SumSeq(_)
SumSeq(s) == IF s = <<>> THEN 0 ELSE Head(s) + SumSeq(Tail(s))

RECURSIVE MaxSeq(_)
MaxSeq(s) == IF Len(s) = 1 THEN Head(s) ELSE Max(Head(s), MaxSeq(Tail(s)))

----------------------------------------------------------------------------
(* class Process *)

Process(pid, arrival_time, burst_time, priority, remaining_time) ==
    [pid |-> pid, arrival_time |-> arrival_time, burst_time |-> burst_time,
     priority |-> priority, remaining_time |-> remaining_time,
     start_time |-> None, completion_time |-> None]

turnaround_time(p) ==
    IF IsNone(p.completion_time) THEN None
    ELSE Some(Val(p.completion_time) - p.arrival_time)

\* mutation of waiting_time: remaining_time is subtracted, not burst_time
waiting_time_remaining(p) ==
    IF IsNone(turnaround_time(p)) THEN None
    ELSE Some(Val(turnaround_time(p)) - p.remaining_time)

waiting_time(p) ==
    IF IsNone(turnaround_time(p)) THEN None
    ELSE Some(Val(turnaround_time(p)) - p.burst_time)

----------------------------------------------------------------------------
(* Scheduler: construction, reset and metrics *)

\* mutation of reset_processes: records that exist are reused, only their
\* remaining_time is reset
reset_processes_stale(self) ==
    [i \in 1..Len(self.original_processes) |->
        LET p == self.original_processes[i]
        IN  IF i \in 1..Len(self.processes)
            THEN [self.processes[i] EXCEPT !.remaining_time = p.burst_time]
            ELSE Process(p.pid, p.arrival_time, p.burst_time, p.priority,
                         p.burst_time)]

\* reset_processes: a fresh record per descriptor, remaining_time = burst_time,
\* timestamps at their defaults.  self is [original_processes, processes].
reset_processes(self) ==
    [i \in 1..Len(self.original_processes) |->
        LET p == self.original_processes[i]
        IN  Process(p.pid, p.arrival_time, p.burst_time, p.priority, p.burst_time)]

\* Scheduler.__init__(processes): the value of self.processes afterwards.
SchedulerInit(descriptors) ==
    reset_processes([original_processes |-> descriptors, processes |-> <<>>])

RECURSIVE GCD(_, _)
GCD(a, b) == IF b = 0 THEN a ELSE GCD(b, a % b)

Abs(a) == IF a < 0 THEN -a ELSE a

\* The quotient n / d of Python's true division (d # 0), as a reduced fraction.
Frac(n, d) ==
    LET g == GCD(Abs(n), Abs(d))
        sg == IF d < 0 THEN -1 ELSE 1
    IN  [num |-> sg * (n \div g), den |-> sg * (d \div g)]

Zero == [num |-> 0, den |-> 1]

\* statistics.mean of a non-empty sequence of integers
mean(xs) == Frac(SumSeq(xs), Len(xs))

SelectCompleted(procs) == SelectSeq(procs, LAMBDA p : ~IsNone(p.completion_time))

\* mutation of get_metrics: without the "if not completed_processes" guard,
\* max() of the empty list raises
get_metrics_unguarded(procs) ==
    LET completed == SelectCompleted(procs)
        n == Len(completed)
        max_completion_time ==
            MaxSeq([k \in 1..n |-> Val(completed[k].completion_time)])
    IN  IF n = 0 \/ max_completion_time = 0
        THEN [raised |-> TRUE,
              avg_turnaround_time |-> Zero, avg_waiting_time |-> Zero,
              throughput |-> Zero, cpu_utilization |-> Zero]
        ELSE [raised |-> FALSE,
              avg_turnaround_time |->
                  mean([k \in 1..n |-> Val(turnaround_time(completed[k]))]),
              avg_waiting_time |->
                  mean([k \in 1..n |-> Val(waiting_time(completed[k]))]),
              throughput |-> Frac(n, max_completion_time),
              cpu_utilization |->
                  Frac(SumSeq([k \in 1..n |-> completed[k].burst_time]) * 100,
                       max_completion_time)]

\* get_metrics: [raised |-> TRUE] stands for the ZeroDivisionError of a division
\* by max_completion_time = 0.
get_metrics(procs) ==
    LET completed == SelectCompleted(procs)
        n == Len(completed)
        max_completion_time ==
            MaxSeq([k \in 1..n |-> Val(completed[k].completion_time)])
    IN  IF n = 0
        THEN [raised |-> FALSE,
              avg_turnaround_time |-> Zero, avg_waiting_time |-> Zero,
              throughput |-> Zero, cpu_utilization |-> Zero]
        ELSE IF max_completion_time = 0
        THEN [raised |-> TRUE,
              avg_turnaround_time |-> Zero, avg_waiting_time |-> Zero,
              throughput |-> Zero, cpu_utilization |-> Zero]
        ELSE [raised |-> FALSE,
              avg_turnaround_time |->
                  mean([k \in 1..n |-> Val(turnaround_time(completed[k]))]),
              avg_waiting_time |->
                  mean([k \in 1..n |-> Val(waiting_time(completed[k]))]),
              throughput |-> Frac(n, max_completion_time),
              cpu_utilization |->
                  Frac(SumSeq([k \in 1..n |-> completed[k].burst_time]) * 100,
                       max_completion_time)]

----------------------------------------------------------------------------
(* Pieces the policies share *)

\* "process in lst" for a list of Process objects: identity or dataclass
\* equality (all fields equal).  Lists hold indices into procs.
In(procs, i, lst) ==
    \E k \in 1..Len(lst) : lst[k] = i \/ procs[lst[k]] = procs[i]

\* mutation of arrived: the arrival test is dropped
arrived_always(process, t) == TRUE

\* mutation of arrived: a process counts as arrived one tick late
arrived_strictly(process, t) == process.arrival_time < t

\* the arrival test of the admission loop
arrived(process, t) == process.arrival_time <= t

\* mutation of admissible: the test against completed_processes is dropped
admissible_without_completed(procs, i, t, completed, ready) ==
    /\ arrived(procs[i], t)
    /\ ~In(procs, i, ready)

\* the admission condition of the six single-queue policies
admissible(procs, i, t, completed, ready) ==
    /\ arrived(procs[i], t)
    /\ ~In(procs, i, completed)
    /\ ~In(procs, i, ready)

\* the admission loop "for process in self.processes", from position i on
RECURSIVE admit(_, _, _, _, _)
admit(procs, i, t, completed, ready) ==
    IF i > Len(procs) THEN ready
    ELSE admit(procs, i + 1, t, completed,
               IF admissible(procs, i, t, completed, ready)
               THEN Append(ready, i) ELSE ready)

\* mutation of set_start: the start time is written at every dispatch
set_start_always(process, t) == [process EXCEPT !.start_time = Some(t)]

\* "if process.start_time is None: process.start_time = current_time"
set_start(process, t) ==
    IF IsNone(process.start_time)
    THEN [process EXCEPT !.start_time = Some(t)] ELSE process

\* mutation of InsertSorted: an element goes before the elements of equal key,
\* so the sort reverses ties
InsertSorted_before_ties(sorted, x, key) ==
    LET k == Cardinality({j \in 1..Len(sorted) : key[sorted[j]] < key[x]})
    IN  SubSeq(sorted, 1, k) \o <<x>> \o SubSeq(sorted, k + 1, Len(sorted))

\* list.sort(key=...): stable, ascending.  key maps an index to its sort key.
InsertSorted(sorted, x, key) ==
    LET k == Cardinality({j \in 1..Len(sorted) : key[sorted[j]] <= key[x]})
    IN  SubSeq(sorted, 1, k) \o <<x>> \o SubSeq(sorted, k + 1, Len(sorted))

RECURSIVE sort(_, _)
sort(lst, key) ==
    IF lst = <<>> THEN <<>>
    ELSE InsertSorted(sort(SubSeq(lst, 1, Len(lst) - 1), key), lst[Len(lst)], key)

remaining_key(procs) == [i \in 1..Len(procs) |-> procs[i].remaining_time]

priority_key(procs) == [i \in 1..Len(procs) |-> procs[i].priority]

\* The state of a policy's loop, as a record of the variables it reads and writes
Locals ==
    [processes |-> processes, current_time |-> current_time,
     ready_queue |-> ready_queue, queues |-> queues,
     completed_processes |-> completed_processes, raised |-> FALSE]

\* the idle branch: "current_time += 1; continue"
idle_tick(s) == [s EXCEPT !.current_time = @ + 1]

\* mutation of run_to_completion: the clock advances by one tick, whatever
\* the process executed
run_to_completion_one_tick(s, i, rest) ==
    LET p == set_start(s.processes[i], s.current_time)
        t == s.current_time + 1
    IN  [s EXCEPT !.processes[i] =
                      [p EXCEPT !.remaining_time = 0, !.completion_time = Some(t)],
                  !.current_time = t,
                  !.ready_queue = rest,
                  !.completed_processes = Append(@, i)]

\* the non-preemptive execution: the process i runs its whole remaining_time
run_to_completion(s, i, rest) ==
    LET p == set_start(s.processes[i], s.current_time)
        t == s.current_time + p.remaining_time
    IN  [s EXCEPT !.processes[i] =
                      [p EXCEPT !.remaining_time = 0, !.completion_time = Some(t)],
                  !.current_time = t,
                  !.ready_queue = rest,
                  !.completed_processes = Append(@, i)]

\* the preemptive execution: the head of the sorted ready queue runs one tick
run_one_tick(s, sorted) ==
    LET i == Head(sorted)
        p == set_start(s.processes[i], s.current_time)
        r == p.remaining_time - 1
        t == s.current_time + 1
    IN  IF r = 0
        THEN [s EXCEPT !.processes[i] =
                           [p EXCEPT !.remaining_time = r, !.completion_time = Some(t)],
                       !.current_time = t,
                       !.ready_queue = Tail(sorted),
                       !.completed_processes = Append(@, i)]
        ELSE [s EXCEPT !.processes[i] = [p EXCEPT !.remaining_time = r],
                       !.current_time = t,
                       !.ready_queue = sorted]

----------------------------------------------------------------------------
(* One iteration of each policy's while loop, on the loop state s *)

Admitted(s) ==
    admit(s.processes, 1, s.current_time, s.completed_processes, s.ready_queue)

fcfs_iter(s) ==
    LET ready == Admitted(s)
    IN  IF ready = <<>> THEN idle_tick(s)
        ELSE run_to_completion(s, Head(ready), Tail(ready))

sjf_nonpreemptive_iter(s) ==
    LET ready == Admitted(s)
        sorted == sort(ready, remaining_key(s.processes))
    IN  IF ready = <<>> THEN idle_tick(s)
        ELSE run_to_completion(s, Head(sorted), Tail(sorted))

\* mutation of sjf_preemptive_iter: the ready queue is served unsorted
sjf_preemptive_iter_unsorted(s) ==
    LET ready == Admitted(s)
    IN  IF ready = <<>> THEN idle_tick(s)
        ELSE run_one_tick(s, ready)

sjf_preemptive_iter(s) ==
    LET ready == Admitted(s)
    IN  IF ready = <<>> THEN idle_tick(s)
        ELSE run_one_tick(s, sort(ready, remaining_key(s.processes)))

\* mutation of execution_time: the slice is the quantum, whatever is left
execution_time_quantum(q, process) == q

\* mutation of execution_time: a slice is never shorter than one tick
execution_time_at_least_one(q, process) == Max(1, Min(q, process.remaining_time))

\* "execution_time = min(quantum, process.remaining_time)"
execution_time(q, process) == Min(q, process.remaining_time)

\* mutation of run_slice: an unfinished process goes back to the front of
\* the queue
run_slice_requeue_front(s, i, rest, q) ==
    LET p == set_start(s.processes[i], s.current_time)
        e == execution_time(q, p)
        r == p.remaining_time - e
        t == s.current_time + e
    IN  IF r = 0
        THEN [s EXCEPT !.processes[i] =
                           [p EXCEPT !.remaining_time = r, !.completion_time = Some(t)],
                       !.current_time = t,
                       !.ready_queue = rest,
                       !.completed_processes = Append(@, i)]
        ELSE [s EXCEPT !.processes[i] = [p EXCEPT !.remaining_time = r],
                       !.current_time = t,
                       !.ready_queue = <<i>> \o rest]

\* the execution of round_robin: process i, popped from the queue, runs a slice
run_slice(s, i, rest, q) ==
    LET p == set_start(s.processes[i], s.current_time)
        e == execution_time(q, p)
        r == p.remaining_time - e
        t == s.current_time + e
    IN  IF r = 0
        THEN [s EXCEPT !.processes[i] =
                           [p EXCEPT !.remaining_time = r, !.completion_time = Some(t)],
                       !.current_time = t,
                       !.ready_queue = rest,
                       !.completed_processes = Append(@, i)]
        ELSE [s EXCEPT !.processes[i] = [p EXCEPT !.remaining_time = r],
                       !.current_time = t,
                       !.ready_queue = Append(rest, i)]

\* mutation of round_robin_iter: the queue is served from its back
round_robin_iter_lifo(s, q) ==
    LET ready == Admitted(s)
    IN  IF ready = <<>> THEN idle_tick(s)
        ELSE run_slice(s, ready[Len(ready)], SubSeq(ready, 1, Len(ready) - 1), q)

round_robin_iter(s, q) ==
    LET ready == Admitted(s)
    IN  IF ready = <<>> THEN idle_tick(s)
        ELSE run_slice(s, Head(ready), Tail(ready), q)

priority_nonpreemptive_iter(s) ==
    LET ready == Admitted(s)
        sorted == sort(ready, priority_key(s.processes))
    IN  IF ready = <<>> THEN idle_tick(s)
        ELSE run_to_completion(s, Head(sorted), Tail(sorted))

priority_preemptive_iter(s) ==
    LET ready == Admitted(s)
    IN  IF ready = <<>> THEN idle_tick(s)
        ELSE run_one_tick(s, sort(ready, priority_key(s.processes)))

----------------------------------------------------------------------------
(* multilevel_queue *)

NumQueues == 3

EmptyQueues == [k \in 1..NumQueues |-> <<>>]

\* mutation of queue_index_of: the index is not capped at the last queue
queue_index_of_uncapped(process) == process.priority \div 4

\* "queue_index = min(process.priority // 4, 2)" (floor division)
queue_index_of(process) == Min(process.priority \div 4, 2)

\* Position (1-based) that the Python list index idx denotes in a list of n
\* elements: negative indices count from the end; 0 stands for IndexError.
ListIndex(idx, n) ==
    IF 0 <= idx /\ idx < n THEN idx + 1
    ELSE IF -n <= idx /\ idx < 0 THEN idx + n + 1
    ELSE 0

InAnyQueue(procs, i, qs) == \E k \in 1..Len(qs) : In(procs, i, qs[k])

\* the admission loop of multilevel_queue from position i on; acc is
\* [queues, raised], raised once queues[queue_index] is out of range
RECURSIVE mlq_admit(_, _, _, _, _)
mlq_admit(procs, i, t, completed, acc) ==
    IF i > Len(procs) \/ acc.raised THEN acc
    ELSE IF /\ arrived(procs[i], t)
            /\ ~In(procs, i, completed)
            /\ ~InAnyQueue(procs, i, acc.queues)
         THEN LET k == ListIndex(queue_index_of(procs[i]), Len(acc.queues))
              IN  mlq_admit(procs, i + 1, t, completed,
                            IF k = 0 THEN [acc EXCEPT !.raised = TRUE]
                            ELSE [acc EXCEPT !.queues[k] = Append(@, i)])
         ELSE mlq_admit(procs, i + 1, t, completed, acc)

\* "next(i for i, q in enumerate(queues) if q)", 1-based
first_nonempty(qs) ==
    CHOOSE k \in 1..Len(qs) : qs[k] # <<>> /\ \A j \in 1..(k - 1) : qs[j] = <<>>

\* mutation of mlq_execution_time: every queue is served round robin
mlq_execution_time_rr(k, q, process) == Min(q, process.remaining_time)

\* the slice of multilevel_queue: queue 0 runs to completion, the others
\* round robin; k is the 1-based position of the queue
mlq_execution_time(k, q, process) ==
    IF k - 1 = 0 THEN process.remaining_time
    ELSE Min(q, process.remaining_time)

multilevel_queue_iter(s, q) ==
    LET acc == mlq_admit(s.processes, 1, s.current_time, s.completed_processes,
                         [queues |-> s.queues, raised |-> FALSE])
        qs == acc.queues
    IN  IF acc.raised THEN [s EXCEPT !.raised = TRUE]
        ELSE IF \A k \in 1..Len(qs) : qs[k] = <<>> THEN idle_tick(s)
        ELSE LET k == first_nonempty(qs)
                 i == Head(qs[k])
                 p == set_start(s.processes[i], s.current_time)
                 e == mlq_execution_time(k, q, p)
                 r == p.remaining_time - e
                 t == s.current_time + e
             IN  IF r = 0
                 THEN [s EXCEPT !.processes[i] =
                                    [p EXCEPT !.remaining_time = r,
                                              !.completion_time = Some(t)],
                                !.current_time = t,
                                !.queues = [qs EXCEPT ![k] = Tail(@)],
                                !.completed_processes = Append(@, i)]
                 ELSE [s EXCEPT !.processes[i] = [p EXCEPT !.remaining_time = r],
                                !.current_time = t,
                                !.queues = [qs EXCEPT ![k] = Append(Tail(@), i)]]

----------------------------------------------------------------------------
(* The policies as one table *)

Policies == {"fcfs", "sjf_nonpreemptive", "sjf_preemptive", "round_robin",
             "priority_nonpreemptive", "priority_preemptive", "multilevel_queue"}

QuantumPolicies == {"round_robin", "multilevel_queue"}

iter(P, q, s) ==
    CASE P = "fcfs" -> fcfs_iter(s)
      [] P = "sjf_nonpreemptive" -> sjf_nonpreemptive_iter(s)
      [] P = "sjf_preemptive" -> sjf_preemptive_iter(s)
      [] P = "round_robin" -> round_robin_iter(s, q)
      [] P = "priority_nonpreemptive" -> priority_nonpreemptive_iter(s)
      [] P = "priority_preemptive" -> priority_preemptive_iter(s)
      [] P = "multilevel_queue" -> multilevel_queue_iter(s, q)

\* the locals at the top of the first iteration, after reset_processes
entry(P, self) ==
    [processes |-> reset_processes(self), current_time |-> 0,
     ready_queue |-> <<>>,
     queues |-> IF P = "multilevel_queue" THEN EmptyQueues ELSE <<>>,
     completed_processes |-> <<>>, raised |-> FALSE]

\* "while len(completed_processes) < len(self.processes)"
loop_condition(s) == Len(s.completed_processes) < Len(s.processes)

\* The while loop of policy P run from loop state s to its exit (or to the
\* exception, or to the clock bound of the model)
RECURSIVE run_loop(_, _, _)
run_loop(P, q, s) ==
    IF s.raised \/ ~loop_condition(s) \/ s.current_time >= MaxClock THEN s
    ELSE run_loop(P, q, iter(P, q, s))

----------------------------------------------------------------------------
(* Workloads *)

\* a descriptor as generate_processes builds it: remaining_time = 0
Descriptor(pid, a, b, pr) == Process(pid, a, b, pr, 0)

\* the descriptor lists of at most MaxProcs processes, pid = position as in
\* generate_processes, with the attributes drawn from the given sets
IsWorkloadOver(w, arrivals, bursts, priorities) ==
    \E n \in 0..MaxProcs :
       \E f \in [1..n -> arrivals \X bursts \X priorities] :
          w = [i \in 1..n |-> Descriptor(i - 1, f[i][1], f[i][2], f[i][3])]

\* the example scenario of the specification
ExampleWorkload == <<Descriptor(0, 0, 5, 1), Descriptor(1, 1, 3, 2)>>

\* valid descriptors with the priorities generate_processes draws (>= 0)
IsValidWorkload(w) ==
    \/ IsWorkloadOver(w, 0..MaxArrival, 1..MaxBurst, Priorities)
    \/ w = ExampleWorkload

\* valid descriptors (arrival >= 0, burst >= 1, unique pid), any integer priority
IsIntWorkload(w) == IsWorkloadOver(w, 0..MaxArrival, 1..MaxBurst, IntPriorities)

\* a workload with at least one descriptor of burst_time <= 0
IsInvalidWorkload(w) ==
    /\ IsWorkloadOver(w, 0..MaxArrival, (-1)..MaxBurst, {0, 4})
    /\ \E i \in 1..Len(w) : w[i].burst_time <= 0

----------------------------------------------------------------------------
(* The state machine *)

InitRest ==
    /\ admitted = <<>>
    /\ executed = <<>>
    /\ processes = SchedulerInit(original_processes)
    /\ pc = "idle"
    /\ policy = "none"
    /\ quantum = None
    /\ current_time = 0
    /\ ready_queue = <<>>
    /\ queues = <<>>
    /\ completed_processes = <<>>
    /\ metrics = None
    /\ reused = FALSE

Init == IsValidWorkload(original_processes) /\ InitRest /\ recording = FALSE

InitInt == IsIntWorkload(original_processes) /\ InitRest /\ recording = FALSE

InitInvalid ==
    IsInvalidWorkload(original_processes) /\ InitRest /\ recording = FALSE

Self == [original_processes |-> original_processes, processes |-> processes]

\* the processes held in a ready structure or in completed_processes
InStructures(s) ==
    Range(s.ready_queue) \cup Range(s.completed_processes)
        \cup UNION {Range(s.queues[k]) : k \in 1..Len(s.queues)}

\* a finite set of integers as an ascending sequence
RECURSIVE Ascending(_)
Ascending(S) ==
    IF S = {} THEN <<>>
    ELSE LET m == CHOOSE x \in S : \A y \in S : x <= y
         IN  <<m>> \o Ascending(S \ {m})

\* history: the processes the iteration from s to s1 admitted; the admission
\* loop visits self.processes in list order
NewlyAdmitted(s, s1) == Ascending(InStructures(s1) \ InStructures(s))

\* history: the slice the iteration from s to s1 executed, if it changed the
\* remaining_time of a process
NewlyExecuted(s, s1) ==
    LET changed == {i \in 1..Len(s.processes) :
                       s1.processes[i].remaining_time # s.processes[i].remaining_time}
    IN  IF changed = {} THEN <<>>
        ELSE LET i == CHOOSE x \in changed : TRUE
             IN  <<[proc |-> i, at |-> s.current_time,
                    ticks |-> s.processes[i].remaining_time
                                  - s1.processes[i].remaining_time,
                    left |-> s1.processes[i].remaining_time]>>

\* the loop state s becomes the state of the program; an exception leaves the
\* method and drops its locals
Apply(s) ==
    /\ admitted' = IF recording THEN admitted \o NewlyAdmitted(Locals, s)
                   ELSE admitted
    /\ executed' = IF recording THEN executed \o NewlyExecuted(Locals, s)
                   ELSE executed
    /\ processes' = s.processes
    /\ current_time' = IF s.raised THEN 0 ELSE s.current_time
    /\ ready_queue' = IF s.raised THEN <<>> ELSE s.ready_queue
    /\ queues' = IF s.raised THEN <<>> ELSE s.queues
    /\ completed_processes' = IF s.raised THEN <<>> ELSE s.completed_processes
    /\ pc' = IF s.raised THEN "raised" ELSE "running"
    /\ UNCHANGED <<original_processes, policy, quantum, metrics, reused, recording>>

\* a policy method among policies is called in a state among pcs, with a
\* quantum among quanta if it takes one: reset_processes and the
\* initialisation of locals
CallWith(pcs, policies, quanta) ==
    /\ pc \in pcs
    /\ \E P \in policies :
         /\ policy' = P
         /\ IF P \in QuantumPolicies
            THEN \E q \in quanta : quantum' = Some(q)
            ELSE quantum' = None
         /\ LET s == entry(P, Self)
            IN  /\ processes' = s.processes
                /\ current_time' = s.current_time
                /\ ready_queue' = s.ready_queue
                /\ queues' = s.queues
                /\ completed_processes' = s.completed_processes
    /\ pc' = "running"
    /\ metrics' = None
    /\ reused' = (pc # "idle")
    /\ admitted' = <<>>
    /\ executed' = <<>>
    /\ UNCHANGED <<original_processes, recording>>

\* any policy is called, on a new Scheduler or after earlier calls
Call == CallWith({"idle", "returned", "raised"}, Policies, 1..MaxQuantum)

InLoop(P) ==
    /\ pc = "running"
    /\ policy = P
    /\ loop_condition(Locals)
    /\ current_time < MaxClock

fcfs == InLoop("fcfs") /\ Apply(fcfs_iter(Locals))

sjf_nonpreemptive ==
    InLoop("sjf_nonpreemptive") /\ Apply(sjf_nonpreemptive_iter(Locals))

sjf_preemptive == InLoop("sjf_preemptive") /\ Apply(sjf_preemptive_iter(Locals))

round_robin ==
    InLoop("round_robin") /\ Apply(round_robin_iter(Locals, Val(quantum)))

priority_nonpreemptive ==
    InLoop("priority_nonpreemptive") /\ Apply(priority_nonpreemptive_iter(Locals))

priority_preemptive ==
    InLoop("priority_preemptive") /\ Apply(priority_preemptive_iter(Locals))

multilevel_queue ==
    InLoop("multilevel_queue") /\ Apply(multilevel_queue_iter(Locals, Val(quantum)))

\* the loop exits: "return self.get_metrics()"
Return ==
    /\ pc = "running"
    /\ ~loop_condition(Locals)
    /\ LET m == get_metrics(processes)
       IN  /\ pc' = IF m.raised THEN "raised" ELSE "returned"
           /\ metrics' = IF m.raised THEN None ELSE Some(m)
    /\ current_time' = 0
    /\ ready_queue' = <<>>
    /\ queues' = <<>>
    /\ completed_processes' = <<>>
    /\ UNCHANGED <<original_processes, processes, policy, quantum, reused,
                   recording, admitted, executed>>

Next ==
    \/ Call
    \/ fcfs
    \/ sjf_nonpreemptive
    \/ sjf_preemptive
    \/ round_robin
    \/ priority_nonpreemptive
    \/ priority_preemptive
    \/ multilevel_queue
    \/ Return

Spec == Init /\ [][Next]_vars

SpecInt == InitInt /\ [][Next]_vars

SpecInvalid == InitInvalid /\ [][Next]_vars

\* One policy call on a new Scheduler, with the histories kept
InitRun == IsValidWorkload(original_processes) /\ InitRest /\ recording = TRUE

CallOnce == CallWith({"idle"}, Policies, 1..MaxQuantum)

NextRun ==
    \/ CallOnce
    \/ fcfs
    \/ sjf_nonpreemptive
    \/ sjf_preemptive
    \/ round_robin
    \/ priority_nonpreemptive
    \/ priority_preemptive
    \/ multilevel_queue
    \/ Return

SpecRun == InitRun /\ [][NextRun]_vars

\* fcfs on a new Scheduler whose list holds one process more than MaxProcs,
\* in any order of arrival, with arrivals up to MaxArrival + 1: two processes
\* can arrive, one after the other, while a third one executes
IsQueueingWorkload(w) ==
    \E f \in [1..(MaxProcs + 1) -> (0..(MaxArrival + 1)) \X (1..MaxBurst)] :
       w = [i \in 1..(MaxProcs + 1) |-> Descriptor(i - 1, f[i][1], f[i][2], 0)]

InitFcfs ==
    IsQueueingWorkload(original_processes) /\ InitRest /\ recording = TRUE

CallFcfs == CallWith({"idle"}, {"fcfs"}, 1..MaxQuantum)

NextFcfs ==
    \/ CallFcfs
    \/ fcfs
    \/ Return

SpecFcfs == InitFcfs /\ [][NextFcfs]_vars

\* multilevel_queue on a new Scheduler, with priorities on both sides of the
\* two tier boundaries and one beyond the cap
TierPriorities == {3, 4, 8, 12}

IsTierWorkload(w) == IsWorkloadOver(w, 0..MaxArrival, 1..MaxBurst, TierPriorities)

InitTiers == IsTierWorkload(original_processes) /\ InitRest /\ recording = TRUE

CallTiers == CallWith({"idle"}, {"multilevel_queue"}, 1..MaxQuantum)

NextTiers ==
    \/ CallTiers
    \/ multilevel_queue
    \/ Return

SpecTiers == InitTiers /\ [][NextTiers]_vars

\* round_robin or multilevel_queue called with quantum = 0 on a new Scheduler;
\* the quantum is not validated
CallZero == CallWith({"idle"}, QuantumPolicies, {0})

NextZero ==
    \/ CallZero
    \/ round_robin
    \/ multilevel_queue
    \/ Return

SpecZero == InitRun /\ [][NextZero]_vars

----------------------------------------------------------------------------
(* Properties *)

Procs == 1..Len(processes)

Running == pc = "running"

Completed(p) == ~IsNone(p.completion_time)

Started(p) == ~IsNone(p.start_time)

\* C1: every run terminates, and when it has terminated (by returning or by
\* an exception) every record has completion_time set and remaining_time = 0.
\* Its safety half: no call ends with an unfinished record.
C1_NoAbandonment ==
    pc \in {"returned", "raised"} =>
        \A i \in Procs : Completed(processes[i]) /\ processes[i].remaining_time = 0

\* C2: every completed record has completion_time >= arrival_time,
\* turnaround_time >= burst_time and waiting_time >= 0.
C2_CompletedTimes ==
    \A i \in Procs :
        Completed(processes[i]) =>
            /\ Val(processes[i].completion_time) >= processes[i].arrival_time
            /\ Val(turnaround_time(processes[i])) >= processes[i].burst_time
            /\ Val(waiting_time(processes[i])) >= 0
            /\ Val(turnaround_time(processes[i])) =
                   Val(processes[i].completion_time) - processes[i].arrival_time
            /\ Val(waiting_time(processes[i])) =
                   Val(turnaround_time(processes[i])) - processes[i].burst_time

\* a run has returned in which a process both waited and completed
C2_Witness ==
    /\ pc = "returned"
    /\ \E i \in Procs : Completed(processes[i]) /\ Val(waiting_time(processes[i])) > 0

\* C3: within a run remaining_time starts at burst_time, never increases from
\* one step to the next and is never negative.
C3_RemainingTime ==
    [][/\ \A i \in Procs : processes[i].remaining_time >= 0
       /\ \A i \in 1..Len(processes') : processes'[i].remaining_time >= 0
       /\ ~Running /\ Running' =>
              \A i \in 1..Len(processes') :
                  processes'[i].remaining_time = processes'[i].burst_time
       /\ Running =>
              /\ Len(processes') = Len(processes)
              /\ \A i \in Procs :
                     processes'[i].remaining_time <= processes[i].remaining_time]_vars

\* a preempted process: part of its burst is done, part is left
C3_Witness ==
    /\ Running
    /\ \E i \in Procs :
          /\ 0 < processes[i].remaining_time
          /\ processes[i].remaining_time < processes[i].burst_time

\* C4: start_time is unset until the first dispatch, is set at that dispatch
\* to current_time as it was before the slice, never changes afterwards and
\* is >= arrival_time.
C4_StartTime ==
    [][Running' =>
          /\ \A i \in 1..Len(processes') :
                /\ Started(processes'[i]) <=>
                       processes'[i].remaining_time < processes'[i].burst_time
                /\ Started(processes'[i]) =>
                       Val(processes'[i].start_time) >= processes'[i].arrival_time
          /\ Running =>
                \A i \in Procs :
                   /\ Started(processes[i]) =>
                          processes'[i].start_time = processes[i].start_time
                   /\ ~Started(processes[i]) /\ Started(processes'[i]) =>
                          /\ Val(processes'[i].start_time) = current_time
                          /\ processes'[i].remaining_time < processes[i].remaining_time
                          /\ current_time' > current_time]_vars

\* a process that was preempted and resumed: it completed later than
\* start_time + burst_time
C4_Witness ==
    \E i \in Procs :
        /\ Completed(processes[i])
        /\ Val(processes[i].completion_time) >
               Val(processes[i].start_time) + processes[i].burst_time

\* C5: completion_time is set exactly once, at the step where remaining_time
\* reaches 0, to the clock after the slice; from then on the record is in no
\* ready structure, is not admitted or dispatched again and does not change.
C5_CompletionTime ==
    [][Running' =>
          /\ \A i \in 1..Len(processes') :
                /\ Completed(processes'[i]) <=> processes'[i].remaining_time = 0
                /\ Completed(processes'[i]) =>
                       /\ i \notin Range(ready_queue')
                       /\ \A k \in 1..Len(queues') : i \notin Range(queues'[k])
                       /\ Cardinality({k \in 1..Len(completed_processes') :
                                          completed_processes'[k] = i}) = 1
          /\ Running =>
                \A i \in Procs :
                   /\ Completed(processes[i]) => processes'[i] = processes[i]
                   /\ ~Completed(processes[i]) /\ Completed(processes'[i]) =>
                          /\ Val(processes'[i].completion_time) = current_time'
                          /\ processes[i].remaining_time > 0
                          /\ processes'[i].remaining_time = 0]_vars

\* the run goes on after a completion: one record is completed, another one
\* has been dispatched since and is not finished
C5_Witness ==
    /\ Running
    /\ \E i, j \in Procs :
          /\ Completed(processes[i])
          /\ ~Completed(processes[j])
          /\ Started(processes[j])
          /\ Val(processes[j].start_time) >= Val(processes[i].completion_time)

\* C6: a workload with a descriptor of burst_time <= 0 is rejected before
\* any policy run starts: no policy loop runs, and none returns, on it.
C6_Rejected ==
    pc \in {"running", "returned"} =>
        \A i \in 1..Len(original_processes) : original_processes[i].burst_time >= 1

\* the example scenario has run to its return under fcfs or sjf_nonpreemptive
ExampleReturned ==
    /\ pc = "returned"
    /\ original_processes = ExampleWorkload
    /\ policy \in {"fcfs", "sjf_nonpreemptive"}

\* process 0 runs over [0,5), process 1 over [5,8)
ExampleSchedule ==
    /\ processes[1].start_time = Some(0) /\ processes[1].completion_time = Some(5)
    /\ processes[2].start_time = Some(5) /\ processes[2].completion_time = Some(8)

WaitingTimes == [i \in Procs |-> Val(waiting_time(processes[i]))]

\* C7 as stated: on the example scenario fcfs and sjf_nonpreemptive run
\* process 0 over [0,5) and process 1 over [5,8) and report
\* avg_waiting_time = 0.5, the sum of the waiting times being 1.
C7_AsStated ==
    ExampleReturned =>
        /\ ExampleSchedule
        /\ SumSeq(WaitingTimes) = 1
        /\ Val(metrics).avg_waiting_time = Frac(1, 2)

\* C7 amended: the schedule is as stated, the waiting times are 0 and 4, so
\* avg_waiting_time = 2; fcfs and sjf_nonpreemptive report the same metrics.
C7_Example ==
    ExampleReturned =>
        /\ ExampleSchedule
        /\ WaitingTimes = <<0, 4>>
        /\ Val(metrics) = [raised |-> FALSE,
                           avg_turnaround_time |-> Frac(6, 1),
                           avg_waiting_time |-> Frac(2, 1),
                           throughput |-> Frac(1, 4),
                           cpu_utilization |-> Frac(100, 1)]

C7_Witness == ExampleReturned /\ policy = "sjf_nonpreemptive"

\* the run of policy P from a Scheduler newly built on the descriptors
FreshRun(P, q) ==
    run_loop(P, q, entry(P, [original_processes |-> original_processes,
                             processes |-> <<>>]))

\* the quantum argument of the current call, 0 for a policy that takes none
QuantumArg == IF IsNone(quantum) THEN 0 ELSE Val(quantum)

AtLoopExit == Running /\ ~loop_condition(Locals)

LargeQuantum ==
    /\ policy = "round_robin"
    /\ \A i \in Procs : Val(quantum) >= processes[i].burst_time

\* C8: with quantum >= every burst_time, round_robin dispatches in the order
\* of fcfs and gives every process the start_time and completion_time of fcfs.
C8_RoundRobinAsFcfs ==
    AtLoopExit /\ LargeQuantum =>
        LET f == FreshRun("fcfs", 0)
        IN  /\ processes = f.processes
            /\ completed_processes = f.completed_processes

\* such a run of two processes or more, one of which had to wait
C8_Witness ==
    /\ AtLoopExit
    /\ LargeQuantum
    /\ Len(processes) >= 2
    /\ \E i \in Procs : processes[i].burst_time >= 2
    /\ \E i \in Procs : Val(waiting_time(processes[i])) > 0

\* C9: in multilevel_queue a process of priority 0 is held in tier 0 only and
\* its first dispatch runs it to completion: completion_time = start_time +
\* burst_time, and in that step no other record changes.
C9_TierZero ==
    [][Running' /\ policy' = "multilevel_queue" =>
          \A i \in 1..Len(processes') :
             processes'[i].priority = 0 =>
                /\ \A k \in 1..Len(queues') : i \in Range(queues'[k]) => k = 1
                /\ Started(processes'[i]) =>
                      /\ Completed(processes'[i])
                      /\ Val(processes'[i].completion_time) =
                            Val(processes'[i].start_time) + processes'[i].burst_time
                /\ Running /\ ~Started(processes[i]) /\ Started(processes'[i]) =>
                      /\ Val(processes'[i].start_time) = current_time
                      /\ current_time' = current_time + processes[i].burst_time
                      /\ \A j \in Procs \ {i} : processes'[j] = processes[j]]_vars

\* a priority-0 process ran a burst longer than the quantum; another
\* priority-0 process arrived meanwhile and has had no CPU time
C9_Witness ==
    /\ Running
    /\ policy = "multilevel_queue"
    /\ \E i, j \in Procs :
          /\ i # j
          /\ processes[i].priority = 0 /\ processes[j].priority = 0
          /\ Completed(processes[i])
          /\ processes[i].burst_time > Val(quantum)
          /\ processes[j].arrival_time > Val(processes[i].start_time)
          /\ processes[j].arrival_time < Val(processes[i].completion_time)
          /\ ~Started(processes[j])

\* C10: a policy run after any other runs on the same Scheduler starts from
\* fresh records and returns the records and metrics that the same policy
\* returns on a Scheduler newly built from the descriptors.
C10_Independent ==
    /\ Running /\ current_time = 0 => processes = SchedulerInit(original_processes)
    /\ pc = "returned" =>
          LET f == FreshRun(policy, QuantumArg)
          IN  /\ ~f.raised
              /\ processes = f.processes
              /\ metrics = Some(get_metrics(f.processes))

\* a run after an earlier run has returned, with a process that waited
C10_Witness ==
    /\ pc = "returned"
    /\ reused
    /\ Len(processes) >= 2
    /\ \E i \in Procs : Val(waiting_time(processes[i])) > 0

\* the burst_time of the completed records and the largest completion_time
TotalBurst ==
    LET completed == SelectCompleted(processes)
    IN  SumSeq([k \in 1..Len(completed) |-> completed[k].burst_time])

MaxCompletion ==
    LET completed == SelectCompleted(processes)
    IN  MaxSeq([k \in 1..Len(completed) |-> Val(completed[k].completion_time)])

\* C11: for every policy and every non-empty valid workload the run ends
\* without an error, and at its end the sum of burst_time over the completed
\* records is at most the largest completion_time, which is at least 1, so
\* cpu_utilization is defined and at most 100.
C11_Utilization ==
    Len(original_processes) >= 1 =>
        /\ pc # "raised"
        /\ pc = "returned" =>
              /\ Len(SelectCompleted(processes)) = Len(processes)
              /\ TotalBurst <= MaxCompletion
              /\ MaxCompletion >= 1
              /\ Val(metrics).cpu_utilization = Frac(TotalBurst * 100, MaxCompletion)
              /\ Val(metrics).cpu_utilization.num
                     <= 100 * Val(metrics).cpu_utilization.den

\* a run of two processes has returned with the CPU busy in every tick
C11_Witness ==
    /\ pc = "returned"
    /\ Len(processes) >= 2
    /\ TotalBurst = MaxCompletion
    /\ Val(metrics).cpu_utilization = Frac(100, 1)

\* the four metrics, all 0, returned without an error
ZeroMetrics ==
    [raised |-> FALSE,
     avg_turnaround_time |-> Zero, avg_waiting_time |-> Zero,
     throughput |-> Zero, cpu_utilization |-> Zero]

\* C12: on an empty workload every policy leaves its loop at once, raises no
\* error, never advances the clock and returns the four metrics as 0; and
\* get_metrics gives the four metrics as 0 whenever no record has a
\* completion_time.
C12_EmptyWorkload ==
    /\ original_processes = <<>> =>
          /\ pc # "raised"
          /\ current_time = 0
          /\ Running => ~loop_condition(Locals)
          /\ pc = "returned" => metrics = Some(ZeroMetrics)
    /\ SelectCompleted(processes) = <<>> => get_metrics(processes) = ZeroMetrics

\* a policy has returned from its run on the empty workload
C12_Witness ==
    /\ original_processes = <<>>
    /\ pc = "returned"
    /\ policy = "multilevel_queue"
    /\ metrics = Some(ZeroMetrics)

\* the four policies that sort the ready queue, and the key each sorts by
SortPolicies ==
    {"sjf_nonpreemptive", "sjf_preemptive",
     "priority_nonpreemptive", "priority_preemptive"}

SortKey(p) ==
    IF policy \in {"sjf_nonpreemptive", "sjf_preemptive"}
    THEN p.remaining_time ELSE p.priority

\* the place of process i in a history of admissions
Position(log, i) == CHOOSE k \in 1..Len(log) : log[k] = i

\* the process a step has executed, when it has executed one
Dispatched == Len(executed') > Len(executed)

Selected == executed'[Len(executed')].proc

\* the ready pool at the decision of a step: every process admitted so far,
\* this step's admissions included, that was not completed before the step
Pool == {j \in Range(admitted') : ~Completed(processes[j])}

C14_FirstCome ==
    policy = "fcfs" =>
        \A i, j \in Procs :
            processes[i].arrival_time < processes[j].arrival_time
                /\ Started(processes[j]) =>
                    /\ Started(processes[i])
                    /\ Val(processes[i].start_time) < Val(processes[j].start_time)

\* the processes that have arrived by current_time and are not completed
ArrivedIncomplete ==
    {i \in Procs : processes[i].arrival_time <= current_time
                       /\ ~Completed(processes[i])}

\* a step that is one iteration of a policy's loop
LoopStep == Running /\ pc' = "running"

\* C15: every policy is work-conserving.  An iteration that executes no process
\* is an idle tick (current_time + 1) taken with no arrived, incomplete
\* process; an iteration with such a process executes one of them, after all
\* of them have been admitted to a ready structure.
C15_WorkConserving ==
    [][LoopStep =>
          /\ processes' = processes =>
                 /\ ArrivedIncomplete = {}
                 /\ current_time' = current_time + 1
                 /\ admitted' = admitted
          /\ ArrivedIncomplete # {} =>
                 /\ \E i \in ArrivedIncomplete :
                        /\ processes'[i].remaining_time < processes[i].remaining_time
                        /\ \A j \in Procs \ {i} : processes'[j] = processes[j]
                 /\ ArrivedIncomplete \subseteq Range(admitted')
                 /\ ArrivedIncomplete \subseteq InStructures(Locals')]_vars

\* a run of two processes idled until the first arrival and dispatched that
\* process in the tick of its arrival
C15_Witness ==
    /\ Running
    /\ executed # <<>>
    /\ executed[1].at >= 1
    /\ executed[1].at = processes[executed[1].proc].arrival_time
    /\ \A i \in Procs : processes[i].arrival_time >= executed[1].at
    /\ Len(processes) >= 2

PreemptivePolicies == {"sjf_preemptive", "priority_preemptive"}

\* C16: in sjf_preemptive and priority_preemptive every iteration that executes
\* a process executes, for one tick, a process whose key (remaining_time,
\* priority) is the minimum over all arrived, incomplete processes.
C16_MinimumKey ==
    [][LoopStep /\ policy \in PreemptivePolicies /\ processes' # processes =>
          \E i \in ArrivedIncomplete :
              /\ processes'[i].remaining_time = processes[i].remaining_time - 1
              /\ current_time' = current_time + 1
              /\ \A j \in ArrivedIncomplete :
                     SortKey(processes[i]) <= SortKey(processes[j])]_vars

\* a preemption: a process was executed and left unfinished, and the next tick
\* went to another process, in the tick of that one's arrival
C16_Witness ==
    /\ policy \in PreemptivePolicies
    /\ \E k \in 1..(Len(executed) - 1) :
          /\ executed[k].proc # executed[k + 1].proc
          /\ executed[k].left > 0
          /\ executed[k + 1].at = processes[executed[k + 1].proc].arrival_time

\* in a history of slices, between two consecutive slices of one process every
\* other process has at most one slice
FairLog(log) ==
    \A a, b \in 1..Len(log) :
        /\ a < b
        /\ log[a].proc = log[b].proc
        /\ \A c \in (a + 1)..(b - 1) : log[c].proc # log[a].proc
        => \A c, d \in (a + 1)..(b - 1) : log[c].proc = log[d].proc => c = d

\* C17: in round_robin every slice is min(quantum, remaining_time) ticks of the
\* process dispatched, a process left unfinished by its slice is then the last
\* of ready_queue, a finished one is not in it, and between two consecutive
\* dispatches of a process every other process is dispatched at most once.
C17_FifoFair ==
    [][LoopStep /\ policy = "round_robin" /\ Dispatched =>
          LET e == executed'[Len(executed')]
          IN  /\ e.ticks = Min(Val(quantum), processes[e.proc].remaining_time)
              /\ e.ticks >= 1
              /\ current_time' = current_time + e.ticks
              /\ e.left > 0 =>
                     /\ ready_queue' # <<>>
                     /\ ready_queue'[Len(ready_queue')] = e.proc
              /\ e.left = 0 => e.proc \notin Range(ready_queue')
              /\ FairLog(executed')]_vars

\* a process had two slices of round_robin, the first a whole quantum, with a
\* slice of another process in between
C17_Witness ==
    /\ policy = "round_robin"
    /\ \E k \in 1..(Len(executed) - 2) :
          /\ executed[k].proc = executed[k + 2].proc
          /\ executed[k].proc # executed[k + 1].proc
          /\ executed[k].ticks = Val(quantum)

\* the tier of a process of priority >= 0: min(priority div 4, 2)
TierOf(p) == IF p.priority < 4 THEN 0 ELSE IF p.priority < 8 THEN 1 ELSE 2

\* the arrived, incomplete processes of the tier of process i
TierMates(i) ==
    {j \in ArrivedIncomplete : TierOf(processes[j]) = TierOf(processes[i])}

\* C18: in multilevel_queue with priorities >= 0 and quantum >= 1 no error is
\* raised, a process is held in queues[k] only for k = min(priority div 4, 2),
\* and every dispatch takes the head of the first non-empty queue: no arrived,
\* incomplete process is of a lower tier than the dispatched one, which is the
\* head of its queue (the first of the list among the new arrivals of its tier
\* if the queue was empty) and, if left unfinished, is re-queued at the back
\* of the same queue.
C18_Tiers ==
    [][policy' = "multilevel_queue" =>
          /\ pc' # "raised"
          /\ \A k \in 1..Len(queues') :
                \A i \in Range(queues'[k]) : k - 1 = TierOf(processes'[i])
          /\ LoopStep =>
                \A i \in Procs :
                   processes'[i].remaining_time # processes[i].remaining_time =>
                      LET q == queues[TierOf(processes[i]) + 1]
                          q1 == queues'[TierOf(processes[i]) + 1]
                      IN  /\ i \in ArrivedIncomplete
                          /\ \A j \in ArrivedIncomplete :
                                 TierOf(processes[i]) <= TierOf(processes[j])
                          /\ IF q # <<>> THEN i = Head(q)
                             ELSE \A j \in TierMates(i) : i <= j
                          /\ processes'[i].remaining_time > 0 =>
                                 q1 # <<>> /\ q1[Len(q1)] = i]_vars

\* a process of priority 12 in the last queue, stopped at the end of its
\* quantum, waits there while a process of a higher tier that arrived later
\* has run
C18_Witness ==
    /\ Running
    /\ policy = "multilevel_queue"
    /\ \E i, j \in Procs :
          /\ processes[i].priority = 12
          /\ i \in Range(queues[3])
          /\ Started(processes[i])
          /\ processes[i].remaining_time > 0
          /\ TierOf(processes[j]) = 1
          /\ Started(processes[j])
          /\ Val(processes[j].start_time) > Val(processes[i].start_time)

\* C19: the tier assignment of multilevel_queue is monotone in priority over
\* all integers and raises no error: a process is held in one of the three
\* queues, one of negative priority in queue 0, and of two queued processes
\* the one of smaller priority is in no later queue.
C19_MonotoneTiers ==
    policy = "multilevel_queue" =>
        /\ pc # "raised"
        /\ \A k \in 1..Len(queues) :
              \A i \in Range(queues[k]) :
                 /\ processes[i].priority < 0 => k - 1 = 0
                 /\ \A l \in 1..Len(queues) :
                       \A j \in Range(queues[l]) :
                          processes[i].priority <= processes[j].priority => k <= l

\* a call with quantum = 0 that the claim C20 is about: round_robin on a
\* non-empty workload, multilevel_queue on a non-empty workload without a
\* process of tier 0
ZeroCase ==
    /\ pc = "running"
    /\ quantum = Some(0)
    /\ Len(processes) >= 1
    /\ \/ policy = "round_robin"
       \/ /\ policy = "multilevel_queue"
          /\ \A i \in Procs : TierOf(processes[i]) >= 1

\* C20: with quantum = 0 (not validated) round_robin on a non-empty workload,
\* and multilevel_queue on a non-empty workload without a tier-0 process,
\* never leave the loop: no step of such a run ends it, the loop condition
\* holds after every step, no process is ever completed, and once a process
\* has been dispatched current_time and every remaining_time never change.
C20_ZeroQuantum ==
    [][/\ ZeroCase' =>
             /\ loop_condition(Locals')
             /\ \A i \in 1..Len(processes') :
                    /\ ~Completed(processes'[i])
                    /\ processes'[i].remaining_time = processes'[i].burst_time
       /\ ZeroCase =>
             /\ pc' = "running"
             /\ (\E i \in Procs : Started(processes[i])) =>
                    /\ current_time' = current_time
                    /\ \A i \in Procs :
                           processes'[i].remaining_time = processes[i].remaining_time]_vars

\* round_robin with quantum 0 has dispatched a process and turns with the
\* clock standing before the arrival of another process
C20_Witness ==
    /\ ZeroCase
    /\ policy = "round_robin"
    /\ \E i, j \in Procs :
          /\ Started(processes[i])
          /\ Val(processes[i].start_time) = current_time
          /\ processes[j].arrival_time > current_time

====
